---------------------------- MODULE Spec2Model ----------------------------
(* A model of the Teensy 4.x flasher: the Intel-HEX image builder          *)
(* (src/src/hex.rs) and the HalfKay block-write engine                     *)
(* (src/src/halfkay.rs) driving the HID transport (src/src/usb.rs).        *)
(* Text is a sequence of one-character strings; bytes and addresses are    *)
(* integers kept to their width; time is in milliseconds.                  *)
EXTENDS Integers, Sequences, FiniteSets, TLC

(***************************************************************************)
(* Program constants                                                       *)
(***************************************************************************)
BLOCK_SIZE == 1024
HEADER_SIZE == 64
REPORT_SIZE == 1 + HEADER_SIZE + BLOCK_SIZE
ERASE_BLOCK_COUNT == 4
ERASE_TIMEOUT == 45000
WRITE_TIMEOUT == 500
RETRY_SLEEP == 10
REOPEN_THROTTLE == 100

U16 == 65536

(***************************************************************************)
(* Bounds of the model                                                     *)
(***************************************************************************)
\* lines of one input text
MaxLines == 3
\* blocks of the largest image the image builder is followed into
MaxImageBlocks == 6
\* failed write_report calls in one flashing session
MaxFails == 2

(***************************************************************************)
(* Integer helpers                                                         *)
(***************************************************************************)
RECURSIVE BitOr(_, _)
\* a | b on unsigned integers
BitOr(a, b) ==
    IF a = 0 THEN b
    ELSE IF b = 0 THEN a
    ELSE (IF a % 2 = 1 \/ b % 2 = 1 THEN 1 ELSE 0) + 2 * BitOr(a \div 2, b \div 2)

\* usize::div_ceil
div_ceil(a, b) == (a + b - 1) \div b

Max(S) == CHOOSE x \in S : \A y \in S : y <= x
Min(S) == CHOOSE x \in S : \A y \in S : x <= y

(***************************************************************************)
(* Hex decoding (hex.rs, parse_hex_u8 / parse_hex_u16 over                 *)
(* from_str_radix)                                                         *)
(***************************************************************************)
UpperHex == <<"0", "1", "2", "3", "4", "5", "6", "7", "8", "9",
              "A", "B", "C", "D", "E", "F">>
LowerHex == <<"0", "1", "2", "3", "4", "5", "6", "7", "8", "9",
              "a", "b", "c", "d", "e", "f">>

InvalidHex == -1

\* the value of every hex digit character, upper or lower case
DigitTable ==
    [c \in {UpperHex[k] : k \in 1..16} \cup {LowerHex[k] : k \in 1..16} |->
        IF \E k \in 1..16 : UpperHex[k] = c
        THEN (CHOOSE k \in 1..16 : UpperHex[k] = c) - 1
        ELSE (CHOOSE k \in 1..16 : LowerHex[k] = c) - 1]

\* char::to_digit(16): the digit's value; InvalidHex for any other character
to_digit(c) == IF c \in DOMAIN DigitTable THEN DigitTable[c] ELSE InvalidHex

RECURSIVE digits_value(_, _)
\* the base-16 value of a digit string, most significant digit first
digits_value(digits, acc) ==
    IF digits = <<>> THEN acc
    ELSE IF to_digit(Head(digits)) = InvalidHex THEN InvalidHex
    ELSE digits_value(Tail(digits), acc * 16 + to_digit(Head(digits)))

\* uN::from_str_radix(src, 16) for an unsigned type wide enough for src:
\* an empty string or a lone sign is an error, one leading '+' is accepted
from_str_radix(src) ==
    IF src = <<>> THEN InvalidHex
    ELSE IF Len(src) = 1 /\ src[1] \in {"+", "-"} THEN InvalidHex
    ELSE IF src[1] = "+" THEN digits_value(Tail(src), 0)
    ELSE digits_value(src, 0)

\* &hex[offset..offset + 2], offset counted from 0
parse_hex_u8(hex, offset) == from_str_radix(SubSeq(hex, offset + 1, offset + 2))

\* &hex[offset..offset + 4]
parse_hex_u16(hex, offset) == from_str_radix(SubSeq(hex, offset + 1, offset + 4))

(***************************************************************************)
(* One record line (hex.rs, parse_record)                                  *)
(***************************************************************************)
Whitespace == {" ", "\t"}

RECURSIVE trim_start(_)
trim_start(s) ==
    IF s # <<>> /\ Head(s) \in Whitespace THEN trim_start(Tail(s)) ELSE s

RECURSIVE trim_end(_)
trim_end(s) ==
    IF s # <<>> /\ s[Len(s)] \in Whitespace
    THEN trim_end(SubSeq(s, 1, Len(s) - 1)) ELSE s

\* str::trim
trim(s) == trim_end(trim_start(s))

\* starts_with_start_code that takes any first character
starts_with_anything(line) == line # <<>>

\* line.starts_with(':')
starts_with_start_code(line) == line # <<>> /\ line[1] = ":"

RECURSIVE wrapping_sum(_, _)
\* u8 wrapping_add of every byte of a sequence onto acc
wrapping_sum(bytes, acc) ==
    IF bytes = <<>> THEN acc
    ELSE wrapping_sum(Tail(bytes), (acc + Head(bytes)) % 256)

\* record_sum that keeps only the low four bits of the sum
record_sum_low_nibble(byte_count, address, record_type, data, checksum) ==
    (byte_count + (address \div 256) + address + record_type
        + wrapping_sum(data, 0) + checksum) % 16

\* the 8-bit sum the record check compares with 0
record_sum(byte_count, address, record_type, data, checksum) ==
    LET s1 == (byte_count + ((address \div 256) % 256)) % 256
        s2 == (s1 + (address % 256)) % 256
        s3 == (s2 + record_type) % 256
        s4 == wrapping_sum(data, s3)
    IN  (s4 + checksum) % 256

RecErr(msg, line_num) == [ok |-> FALSE, err |-> msg, line |-> line_num]

parse_record(line, line_num) ==
    IF ~starts_with_start_code(line) THEN RecErr("missing start code", line_num)
    ELSE
    LET hex == Tail(line) IN
    IF Len(hex) < 10 THEN RecErr("record too short", line_num)
    ELSE
    LET byte_count  == parse_hex_u8(hex, 0)
        address     == parse_hex_u16(hex, 2)
        record_type == parse_hex_u8(hex, 6)
    IN
    IF byte_count = InvalidHex \/ address = InvalidHex \/ record_type = InvalidHex
    THEN RecErr("invalid hex", line_num)
    ELSE
    LET expected_len == 8 + (byte_count * 2) + 2 IN
    IF Len(hex) < expected_len THEN RecErr("data truncated", line_num)
    ELSE
    LET data     == [k \in 1..byte_count |-> parse_hex_u8(hex, 8 + (k - 1) * 2)]
        checksum == parse_hex_u8(hex, 8 + byte_count * 2)
    IN
    IF (\E k \in 1..byte_count : data[k] = InvalidHex) \/ checksum = InvalidHex
    THEN RecErr("invalid hex", line_num)
    ELSE IF record_sum(byte_count, address, record_type, data, checksum) # 0
    THEN RecErr("checksum mismatch", line_num)
    ELSE [ok |-> TRUE, address |-> address, record_type |-> record_type,
          data |-> data]

(***************************************************************************)
(* u32 values, as their two 16-bit halves                                  *)
(***************************************************************************)
u32(hi, lo) == [hi |-> hi, lo |-> lo]

u32_lt(a, b) == a.hi < b.hi \/ (a.hi = b.hi /\ a.lo < b.lo)
u32_le(a, b) == a = b \/ u32_lt(a, b)

\* a | b
u32_or(a, b) == u32(BitOr(a.hi, b.hi), BitOr(a.lo, b.lo))

\* (byte as u32) << n, for n = 16 or 24
u32_shl_byte(byte, n) == u32((byte * (2 ^ (n - 16))) % U16, 0)

\* a + n for a length n below 2^16: the wrapped sum, and whether it
\* overflowed
u32_add(a, n) ==
    LET lo == a.lo + n
        hi == a.hi + (lo \div U16)
    IN  [sum |-> u32(hi % U16, lo % U16), overflow |-> hi >= U16]

\* a - b modulo 2^32
u32_wrapping_sub(a, b) ==
    LET lo == a.lo - b.lo
        borrow == IF lo < 0 THEN 1 ELSE 0
    IN  u32((a.hi - b.hi - borrow + U16) % U16, (lo + U16) % U16)

\* (x as usize), for the values below TooLarge; TooLarge stands for every
\* value from there on
TooLarge == 2147483647
as_usize(x) == IF x.hi >= 32768 THEN TooLarge ELSE x.hi * U16 + x.lo

u32_min(S) == CHOOSE x \in S : \A y \in S : u32_le(x, y)
u32_max(S) == CHOOSE x \in S : \A y \in S : u32_le(y, x)

(***************************************************************************)
(* The flat image (hex.rs, FirmwareImage::parse, lines 61-79)              *)
(***************************************************************************)
\* *a + d.len() as u32
segment_end(seg) == u32_add(seg.addr, Len(seg.data))

\* aligned_size without the rounding up to a block
aligned_size_unrounded(raw_size) == raw_size

\* raw_size.div_ceil(BLOCK_SIZE) * BLOCK_SIZE
aligned_size(raw_size) == div_ceil(raw_size, BLOCK_SIZE) * BLOCK_SIZE

\* vec![0xFFu8; aligned_size]
erased(size) == [k \in 1..size |-> 255]

\* data[offset..offset + segment_data.len()].copy_from_slice(segment_data)
copy_from_slice(data, offset, segment_data) ==
    SubSeq(data, 1, offset)
        \o segment_data
        \o SubSeq(data, offset + Len(segment_data) + 1, Len(data))

OutOfRange == <<-1>>

RECURSIVE copy_segments(_, _, _)
\* the copy loop, in input order; OutOfRange stands for the panic of a
\* slice that reaches past the buffer
copy_segments(data, base_address, segs) ==
    IF segs = <<>> THEN data
    ELSE LET seg    == Head(segs)
             offset == as_usize(u32_wrapping_sub(seg.addr, base_address))
         IN  IF offset = TooLarge \/ offset + Len(seg.data) > Len(data)
             THEN OutOfRange
             ELSE copy_segments(copy_from_slice(data, offset, seg.data),
                                base_address, Tail(segs))

\* segments.iter().map(|(a, _)| *a).min()
base_of(segs) == u32_min({segs[k].addr : k \in 1..Len(segs)})

\* segments.iter().map(|(a, d)| *a + d.len() as u32).max(), in a build
\* where the sum wraps
end_of(segs) == u32_max({segment_end(segs[k]).sum : k \in 1..Len(segs)})

\* whether some *a + d.len() overflows: a panic in a build with overflow
\* checks
end_overflows(segs) == \E k \in 1..Len(segs) : segment_end(segs[k]).overflow

\* (end_address - base_address) as usize where that does not panic
raw_size_of(segs) == as_usize(u32_wrapping_sub(end_of(segs), base_of(segs)))

Panic == [kind |-> "panic"]

\* the image of a non-empty segment list
build_image(segs, overflow_checks) ==
    IF overflow_checks /\ (end_overflows(segs) \/ u32_lt(end_of(segs), base_of(segs)))
    THEN Panic
    ELSE LET data == copy_segments(erased(aligned_size(raw_size_of(segs))),
                                   base_of(segs), segs)
         IN  IF data = OutOfRange THEN Panic
             ELSE [kind |-> "ok", data |-> data, base_address |-> base_of(segs)]

(***************************************************************************)
(* Input texts                                                             *)
(***************************************************************************)
Hex2(n) == <<UpperHex[(n \div 16) + 1], UpperHex[(n % 16) + 1]>>

RECURSIVE HexBytes(_)
HexBytes(bytes) ==
    IF bytes = <<>> THEN <<>> ELSE Hex2(Head(bytes)) \o HexBytes(Tail(bytes))

RECURSIVE PlainSum(_)
PlainSum(bytes) == IF bytes = <<>> THEN 0 ELSE Head(bytes) + PlainSum(Tail(bytes))

\* the record's fields before the checksum, as bytes
RecordBytes(address, record_type, data) ==
    <<Len(data), address \div 256, address % 256, record_type>> \o data

\* the two's complement of the fields' sum
GoodChecksum(address, record_type, data) ==
    (256 - (PlainSum(RecordBytes(address, record_type, data)) % 256)) % 256

\* the line ":BBAAAATTDD..DDCC" of a record, with a given checksum byte
LineWith(address, record_type, data, checksum) ==
    <<":">> \o HexBytes(RecordBytes(address, record_type, data)) \o Hex2(checksum)

RecordLine(address, record_type, data) ==
    LineWith(address, record_type, data, GoodChecksum(address, record_type, data))

DataAt0 == RecordLine(0, 0, <<70, 255>>)
DataBlock1 == RecordLine(1025, 0, <<18>>)
DataTop == RecordLine(65535, 0, <<1, 2>>)
DataTopAgain == RecordLine(65535, 0, <<9>>)
DataEmpty == RecordLine(16, 0, <<>>)
DataOver == RecordLine(1, 0, <<171>>)
Ext6000 == RecordLine(0, 4, <<96, 0>>)
Ext0060 == RecordLine(0, 4, <<0, 96>>)
ExtFFFF == RecordLine(0, 4, <<255, 255>>)
EofLine == RecordLine(0, 1, <<>>)
StartLinear == RecordLine(0, 5, <<96, 0, 0, 1>>)
NoStartCode == Tail(DataAt0)
BlankLine == <<" ">>

\* lines that combine freely
CoreLines ==
    {DataAt0, DataOver, Ext6000, Ext0060, ExtFFFF, EofLine, BlankLine}

\* lines tried once in a text, after a prefix of core lines
OddLines ==
    {DataBlock1, DataTop, DataEmpty, StartLinear, NoStartCode,
     LineWith(0, 0, <<70, 255>>, 186),              \* checksum off by one
     RecordLine(0, 4, <<96>>),                      \* extended address, 1 byte
     RecordLine(0, 2, <<16, 0>>),                   \* extended segment address
     <<":", "0", "0">>,                             \* too short
     SubSeq(DataAt0, 1, Len(DataAt0) - 2),          \* payload cut
     <<":", "0", "G">> \o SubSeq(EofLine, 4, Len(EofLine)),
     <<":", "0", "1", "0", "0", "1", "0", "0", "0", "a", "b", "4", "4">>,
     <<":", "+", "1", "+", "0", "1", "0", "0", "0", "+", "B", "E", "4">>,
     <<" ", "\t">> \o EofLine \o <<" ">>,           \* surrounded by blanks
     DataBlock1 \o <<"z", "z">>,                    \* text after the checksum
     Tail(LineWith(0, 0, <<70, 255>>, 186)),        \* no start code, bad sum
     <<"0", "0">>,                                  \* no start code, short
     <<>>}

RECURSIVE BoundedSeq(_, _)
\* the sequences over S of length at most n
BoundedSeq(S, n) ==
    IF n = 0 THEN {<<>>}
    ELSE LET shorter == BoundedSeq(S, n - 1)
         IN  shorter \cup {Append(q, x) : q \in shorter, x \in S}

\* two data records at the top of the address space, one over the other
WrapTexts ==
    {<<ExtFFFF, DataTop, DataTopAgain>>, <<ExtFFFF, DataTopAgain, DataTop>>}

ParseInputs ==
    BoundedSeq(CoreLines, MaxLines)
        \cup {Append(q, x) : q \in BoundedSeq(CoreLines, MaxLines - 1), x \in OddLines}
        \cup WrapTexts

(***************************************************************************)
(* State                                                                   *)
(***************************************************************************)
VARIABLES
    pc,                 \* where the program is
    content,            \* the input text, as its lines
    line_idx,           \* lines the parse loop has completed
    extended_address,   \* parse: the active 32-bit base
    segments,           \* parse: (address, bytes) of every data record so far
    result,             \* what parse returned
    image,              \* <<>> or <<the FirmwareImage parse returned>>
    now,                \* the monotonic clock, ms
    i,                  \* flash: the block index of the loop
    block,              \* flash: the slice of the image at the loop's offset
    report,             \* the frame buffer
    timeout,            \* write_with_retry: the block's budget
    start,              \* retry loop: Instant of its start
    last_reopen,        \* retry loop: Instant of the last reopen (or start)
    flash_result,       \* what flash returned
    reboot_result,      \* what reboot returned
    progress,           \* the blocks on_block was called with, in order
    writes,             \* every write_report call: the loop, its block, the outcome
    last_write,         \* the latest write_report call, with start.elapsed() after it
    reopens,            \* the clock at every reopen call
    reopened,           \* <<>> or <<what the latest reopen call returned>>
    fails               \* failed write_report calls so far

pvars == <<content, line_idx, extended_address, segments, result, image>>
fvars == <<now, i, block, report, timeout, start, last_reopen, flash_result,
           reboot_result, progress, writes, last_write, reopens, reopened,
           fails>>
vars == <<pc, pvars, fvars>>

NoResult == [kind |-> "none"]
Ok == [kind |-> "ok"]
Err(msg, line_num) == [kind |-> "err", err |-> msg, line |-> line_num]

(***************************************************************************)
(* FirmwareImage::parse, one loop iteration per step                       *)
(***************************************************************************)
\* dispatch that takes a start-linear-address record for data
dispatch_start_as_data(record_type) ==
    CASE record_type = 0 -> "data"
      [] record_type = 1 -> "eof"
      [] record_type = 4 -> "extended"
      [] record_type = 5 -> "data"
      [] OTHER -> "unsupported"

\* dispatch that reads on past an EOF record
dispatch_eof_continues(record_type) ==
    CASE record_type = 0 -> "data"
      [] record_type = 1 -> "start"
      [] record_type = 4 -> "extended"
      [] record_type = 5 -> "start"
      [] OTHER -> "unsupported"

\* match rec.record_type
dispatch(record_type) ==
    CASE record_type = 0 -> "data"
      [] record_type = 1 -> "eof"
      [] record_type = 4 -> "extended"
      [] record_type = 5 -> "start"
      [] OTHER -> "unsupported"

\* extended_address | (rec.address as u32)
full_address(ext, address) == u32_or(ext, u32(0, address))

\* new_extended_address that adds the new base onto the old one
new_extended_address_accumulating(old, data) ==
    u32_or(old, u32_or(u32_shl_byte(data[1], 24), u32_shl_byte(data[2], 16)))

\* new_extended_address that takes the payload low byte first
new_extended_address_swapped(old, data) ==
    u32_or(u32_shl_byte(data[2], 24), u32_shl_byte(data[1], 16))

\* ((rec.data[0] as u32) << 24) | ((rec.data[1] as u32) << 16)
new_extended_address(old, data) ==
    u32_or(u32_shl_byte(data[1], 24), u32_shl_byte(data[2], 16))

\* the line the loop is at, trimmed, and its record
CurLine == trim(content[line_idx + 1])
CurRec == parse_record(CurLine, line_idx + 1)
InLoop == pc = "lines" /\ line_idx < Len(content)
AtRecord(kind) ==
    InLoop /\ CurLine # <<>> /\ CurRec.ok /\ dispatch(CurRec.record_type) = kind

ParseFails(msg) ==
    /\ result' = Err(msg, line_idx + 1)
    /\ pc' = "failed"
    /\ UNCHANGED <<content, line_idx, extended_address, segments, image, fvars>>

SkipBlank ==
    /\ InLoop /\ CurLine = <<>>
    /\ line_idx' = line_idx + 1
    /\ UNCHANGED <<pc, content, extended_address, segments, result, image, fvars>>

RecordError ==
    /\ InLoop /\ CurLine # <<>> /\ ~CurRec.ok
    /\ ParseFails(CurRec.err)

DataRecord ==
    /\ AtRecord("data")
    /\ segments' = Append(segments,
                          [addr |-> full_address(extended_address, CurRec.address),
                           data |-> CurRec.data])
    /\ line_idx' = line_idx + 1
    /\ UNCHANGED <<pc, content, extended_address, result, image, fvars>>

EndOfFile ==
    /\ AtRecord("eof")
    /\ pc' = "merge"
    /\ UNCHANGED <<pvars, fvars>>

ExtendedAddress ==
    /\ AtRecord("extended")
    /\ Len(CurRec.data) = 2
    /\ extended_address' = new_extended_address(extended_address, CurRec.data)
    /\ line_idx' = line_idx + 1
    /\ UNCHANGED <<pc, content, segments, result, image, fvars>>

ExtendedAddressBadLength ==
    /\ AtRecord("extended")
    /\ Len(CurRec.data) # 2
    /\ ParseFails("extended address must be 2 bytes")

StartLinearAddress ==
    /\ AtRecord("start")
    /\ line_idx' = line_idx + 1
    /\ UNCHANGED <<pc, content, extended_address, segments, result, image, fvars>>

UnsupportedRecord ==
    /\ AtRecord("unsupported")
    /\ ParseFails("unsupported record type")

EndOfInput ==
    /\ pc = "lines" /\ line_idx = Len(content)
    /\ pc' = "merge"
    /\ UNCHANGED <<pvars, fvars>>

\* segments.is_empty()
NoData ==
    /\ pc = "merge" /\ segments = <<>>
    /\ result' = Err("hex file contains no data", 0)
    /\ pc' = "failed"
    /\ UNCHANGED <<content, line_idx, extended_address, segments, image, fvars>>

\* the image is followed up to MaxImageBlocks blocks
Buildable == raw_size_of(segments) <= MaxImageBlocks * BLOCK_SIZE

BuildImage ==
    /\ pc = "merge" /\ segments # <<>>
    /\ Buildable
    /\ \E overflow_checks \in BOOLEAN :
           LET built == build_image(segments, overflow_checks)
           IN  IF built.kind = "ok"
               THEN /\ image' = <<[data |-> built.data,
                                   base_address |-> built.base_address]>>
                    /\ result' = Ok
                    /\ pc' = "parsed"
               ELSE /\ image' = image
                    /\ result' = Panic
                    /\ pc' = "failed"
    /\ UNCHANGED <<content, line_idx, extended_address, segments, fvars>>

NextParse ==
    \/ SkipBlank
    \/ RecordError
    \/ DataRecord
    \/ EndOfFile
    \/ ExtendedAddress
    \/ ExtendedAddressBadLength
    \/ StartLinearAddress
    \/ UnsupportedRecord
    \/ EndOfInput
    \/ NoData
    \/ BuildImage

ParseStart(inputs) ==
    /\ pc = "lines"
    /\ content \in inputs
    /\ line_idx = 0
    /\ extended_address = u32(0, 0)
    /\ segments = <<>>
    /\ result = NoResult
    /\ image = <<>>

FlashIdle ==
    /\ now = 0
    /\ i = 0
    /\ block = <<>>
    /\ report = <<>>
    /\ timeout = 0
    /\ start = 0
    /\ last_reopen = 0
    /\ flash_result = NoResult
    /\ reboot_result = NoResult
    /\ progress = <<>>
    /\ writes = <<>>
    /\ last_write = <<>>
    /\ reopens = <<>>
    /\ reopened = <<>>
    /\ fails = 0

InitParse == ParseStart(ParseInputs) /\ FlashIdle

SpecParse == InitParse /\ [][NextParse]_vars

(***************************************************************************)
(* The transport (usb.rs, TeensyDevice) as the engine sees it              *)
(***************************************************************************)
\* what one write_report call can return: Ok(n) or Err(e)
WriteResults ==
    {[ok |-> TRUE, n |-> REPORT_SIZE],
     [ok |-> TRUE, n |-> REPORT_SIZE - 1],
     [ok |-> FALSE, msg |-> "Broken pipe"],
     [ok |-> FALSE, msg |-> "hidapi error"]}

\* how long a write_report call takes, and how long a sleep lasts (a sleep
\* lasts at least RETRY_SLEEP)
WriteDurations == {0, REOPEN_THROTTLE}
SleepDurations == {RETRY_SLEEP, WRITE_TIMEOUT, ERASE_TIMEOUT}

\* the log's name of a result
ResultKind(res) ==
    IF ~res.ok THEN "err" ELSE IF res.n = REPORT_SIZE THEN "full" ELSE "short"

(***************************************************************************)
(* halfkay.rs: frames                                                      *)
(***************************************************************************)
zeroed(len) == [k \in 1..len |-> 0]

\* fill_block_report with the address high byte first
fill_block_report_big_endian(old_report, addr, data) ==
    LET header == [zeroed(1 + HEADER_SIZE) EXCEPT
                      ![2] = (addr \div 65536) % 256,
                      ![3] = (addr \div 256) % 256,
                      ![4] = addr % 256]
        cleared == header \o zeroed(Len(old_report) - (1 + HEADER_SIZE))
    IN  copy_from_slice(cleared, 1 + HEADER_SIZE, data)

\* fill_block_report: report[j] of the code is report[j + 1] here
fill_block_report(old_report, addr, data) ==
    LET header == [zeroed(1 + HEADER_SIZE) EXCEPT
                      ![2] = addr % 256,
                      ![3] = (addr \div 256) % 256,
                      ![4] = (addr \div 65536) % 256]
        cleared == header \o zeroed(Len(old_report) - (1 + HEADER_SIZE))
    IN  copy_from_slice(cleared, 1 + HEADER_SIZE, data)

\* fill_boot_report
fill_boot_report(old_report) ==
    [zeroed(Len(old_report)) EXCEPT ![2] = 255, ![3] = 255, ![4] = 255]

(***************************************************************************)
(* halfkay.rs: flash_with_progress and write_with_retry                    *)
(***************************************************************************)
\* image.data.len() / usb::BLOCK_SIZE
total_blocks(img) == Len(img.data) \div BLOCK_SIZE

\* &image.data[offset..offset + usb::BLOCK_SIZE]
block_at(img, offset) == SubSeq(img.data, offset + 1, offset + BLOCK_SIZE)

\* skip_block without the exemption of block 0
skip_block_any(idx, bytes) == ~(\E k \in 1..Len(bytes) : bytes[k] # 255)

\* i > 0 && block.iter().all(|&b| b == 0xFF)
skip_block(idx, bytes) == idx > 0 /\ ~(\E k \in 1..Len(bytes) : bytes[k] # 255)

\* timeout_for with the long budget for one block fewer
timeout_for_exclusive(block_index) ==
    IF block_index < ERASE_BLOCK_COUNT THEN ERASE_TIMEOUT ELSE WRITE_TIMEOUT

\* the budget of write_with_retry
timeout_for(block_index) ==
    IF block_index <= ERASE_BLOCK_COUNT THEN ERASE_TIMEOUT ELSE WRITE_TIMEOUT

\* write_step with the arms of reboot: any Ok, and an Err past the budget,
\* end the loop as done
write_step_as_reboot(res, elapsed, budget) ==
    IF res.ok THEN "done"
    ELSE IF elapsed >= budget THEN "done"
    ELSE "retry"

\* write_step that takes a write of any length as done
write_step_any_length(res, elapsed, budget) ==
    IF res.ok THEN "done"
    ELSE IF elapsed >= budget THEN "write timed out"
    ELSE "retry"

\* the match of write_with_retry on one write_report result
write_step(res, elapsed, budget) ==
    IF res.ok /\ res.n = REPORT_SIZE THEN "done"
    ELSE IF res.ok THEN "short write"
    ELSE IF elapsed >= budget THEN "write timed out"
    ELSE "retry"

\* write_reopens without the throttle
write_reopens_unthrottled(res, since_reopen) == res.msg = "Broken pipe"

\* write_reopens without the look at the error's text
write_reopens_any_error(res, since_reopen) == since_reopen >= REOPEN_THROTTLE

\* e.to_string().contains("Broken pipe") && last_reopen.elapsed() >= REOPEN_THROTTLE
write_reopens(res, since_reopen) ==
    res.msg = "Broken pipe" /\ since_reopen >= REOPEN_THROTTLE

\* main.rs: TeensyDevice::open after a successful parse
OpenDevice ==
    /\ pc = "parsed"
    /\ \/ pc' = "flash"
       \/ pc' = "device not found"
    /\ UNCHANGED <<pvars, fvars>>

FlashStart ==
    /\ pc = "flash"
    /\ i' = 0
    /\ report' = zeroed(REPORT_SIZE)
    /\ pc' = "block"
    /\ UNCHANGED <<pvars, now, block, timeout, start, last_reopen, flash_result,
                   reboot_result, progress, writes, last_write, reopens, reopened, fails>>

Img == image[1]
AtBlock == pc = "block" /\ i < total_blocks(Img)

SkipBlock ==
    /\ AtBlock
    /\ skip_block(i, block_at(Img, i * BLOCK_SIZE))
    /\ block' = block_at(Img, i * BLOCK_SIZE)
    /\ i' = i + 1
    /\ UNCHANGED <<pc, pvars, now, report, timeout, start, last_reopen,
                   flash_result, reboot_result, progress, writes, last_write,
                   reopens, reopened, fails>>

\* on_block, fill_block_report and the entry of write_with_retry
StartBlock ==
    /\ AtBlock
    /\ ~skip_block(i, block_at(Img, i * BLOCK_SIZE))
    /\ progress' = Append(progress, i)
    /\ block' = block_at(Img, i * BLOCK_SIZE)
    /\ report' = fill_block_report(report, i * BLOCK_SIZE, block')
    /\ timeout' = timeout_for(i)
    /\ start' = now
    /\ last_reopen' = now
    /\ pc' = "write"
    /\ UNCHANGED <<pvars, now, i, flash_result, reboot_result, writes,
                   last_write, reopens, reopened, fails>>

FlashDone ==
    /\ pc = "block" /\ i = total_blocks(Img)
    /\ flash_result' = Ok
    /\ pc' = "reboot"
    /\ UNCHANGED <<pvars, now, i, report, block, timeout, start, last_reopen,
                   reboot_result, progress, writes, last_write, reopens, reopened, fails>>

\* one write_report call of the loop `op`, returning res after d ms
Written(op, res, d) ==
    /\ res.ok \/ fails < MaxFails
    /\ fails' = IF res.ok THEN fails ELSE fails + 1
    /\ writes' = Append(writes, [op |-> op, block |-> i, res |-> ResultKind(res)])
    /\ last_write' = <<[op |-> op, block |-> i, res |-> ResultKind(res),
                        msg |-> IF res.ok THEN "" ELSE res.msg,
                        elapsed |-> (now + d) - start]>>

\* the Err arm that retries: reopen if called for, its return dropped, then
\* sleep s ms
Retry(reopen, d, s) ==
    /\ IF reopen
       THEN /\ reopens' = Append(reopens, now + d)
            /\ \E ok \in BOOLEAN : reopened' = <<ok>>
            /\ last_reopen' = now + d
       ELSE UNCHANGED <<reopens, reopened, last_reopen>>
    /\ now' = now + d + s

WriteDone ==
    /\ pc = "write"
    /\ \E res \in WriteResults, d \in WriteDurations :
        /\ write_step(res, (now + d) - start, timeout) = "done"
        /\ Written("block", res, d)
        /\ now' = now + d
    /\ i' = i + 1
    /\ pc' = "block"
    /\ UNCHANGED <<pvars, report, block, timeout, start, last_reopen, flash_result,
                   reboot_result, progress, reopens, reopened>>

WriteFails ==
    /\ pc = "write"
    /\ \E res \in WriteResults, d \in WriteDurations :
        LET step == write_step(res, (now + d) - start, timeout) IN
        /\ step \notin {"done", "retry"}
        /\ Written("block", res, d)
        /\ now' = now + d
        /\ flash_result' = [kind |-> "err", err |-> step, block |-> i,
                            budget |-> timeout]
    /\ pc' = "flash failed"
    /\ UNCHANGED <<pvars, i, report, block, timeout, start, last_reopen,
                   reboot_result, progress, reopens, reopened>>

WriteRetry ==
    /\ pc = "write"
    /\ \E res \in WriteResults, d \in WriteDurations, s \in SleepDurations :
        /\ write_step(res, (now + d) - start, timeout) = "retry"
        /\ Written("block", res, d)
        /\ Retry(write_reopens(res, (now + d) - last_reopen), d, s)
    /\ UNCHANGED <<pc, pvars, i, report, block, timeout, start, flash_result,
                   reboot_result, progress>>

(***************************************************************************)
(* halfkay.rs: reboot                                                      *)
(***************************************************************************)
\* reboot_step that reports the timeout like write_with_retry does
reboot_step_reporting(res, elapsed) ==
    IF res.ok THEN "done"
    ELSE IF elapsed >= WRITE_TIMEOUT THEN "write timed out"
    ELSE "retry"

\* reboot_step with the long budget of the first blocks
reboot_step_erase_budget(res, elapsed) ==
    IF res.ok THEN "done"
    ELSE IF elapsed >= ERASE_TIMEOUT THEN "done"
    ELSE "retry"

\* the match of reboot on one write_report result
reboot_step(res, elapsed) ==
    IF res.ok THEN "done"
    ELSE IF elapsed >= WRITE_TIMEOUT THEN "done"
    ELSE "retry"

\* last_reopen.elapsed() >= REOPEN_THROTTLE
reboot_reopens(res, since_reopen) == since_reopen >= REOPEN_THROTTLE

RebootStart ==
    /\ pc = "reboot"
    /\ report' = fill_boot_report(zeroed(REPORT_SIZE))
    /\ start' = now
    /\ last_reopen' = now
    /\ pc' = "reboot write"
    /\ UNCHANGED <<pvars, now, i, block, timeout, flash_result, reboot_result,
                   progress, writes, last_write, reopens, reopened, fails>>

RebootReturns ==
    /\ pc = "reboot write"
    /\ \E res \in WriteResults, d \in WriteDurations :
        LET step == reboot_step(res, (now + d) - start) IN
        /\ step # "retry"
        /\ Written("reboot", res, d)
        /\ now' = now + d
        /\ reboot_result' = IF step = "done" THEN Ok
                             ELSE [kind |-> "err", err |-> step]
    /\ pc' = "done"
    /\ UNCHANGED <<pvars, i, report, block, timeout, start, last_reopen,
                   flash_result, progress, reopens, reopened>>

RebootRetry ==
    /\ pc = "reboot write"
    /\ \E res \in WriteResults, d \in WriteDurations, s \in SleepDurations :
        /\ reboot_step(res, (now + d) - start) = "retry"
        /\ Written("reboot", res, d)
        /\ Retry(reboot_reopens(res, (now + d) - last_reopen), d, s)
    /\ UNCHANGED <<pc, pvars, i, report, block, timeout, start, flash_result,
                   reboot_result, progress>>

NextFlash ==
    \/ OpenDevice
    \/ FlashStart
    \/ SkipBlock
    \/ StartBlock
    \/ FlashDone
    \/ WriteDone
    \/ WriteFails
    \/ WriteRetry
    \/ RebootStart
    \/ RebootReturns
    \/ RebootRetry

(***************************************************************************)
(* main.rs, flash: parse, open, flash, reboot                              *)
(***************************************************************************)
SessionInputs ==
    {<<DataAt0, EofLine>>,
     <<DataAt0, RecordLine(4096, 0, <<1>>)>>,
     <<Ext6000, RecordLine(0, 0, <<255>>), RecordLine(5120, 0, <<2>>), EofLine>>,
     <<DataEmpty>>,
     <<BlankLine, StartLinear, EofLine>>,
     <<NoStartCode>>,
     <<RecordLine(0, 4, <<96>>)>>,
     <<RecordLine(0, 2, <<16, 0>>)>>}

Init == ParseStart(SessionInputs) /\ FlashIdle

Next == NextParse \/ NextFlash

Spec == Init /\ [][Next]_vars

(***************************************************************************)
(* What parse has read, recomputed from the text                           *)
(***************************************************************************)
LineAt(j) == trim(content[j])
RecAt(j) == parse_record(LineAt(j), j)

\* line j is a well-formed record of the given type
IsRecord(j, type) ==
    LineAt(j) # <<>> /\ RecAt(j).ok /\ RecAt(j).record_type = type

\* the line parse stopped at (an EOF record or an error), if any
StoppedAt ==
    IF pc # "lines" /\ line_idx < Len(content) THEN {line_idx + 1} ELSE {}

\* the lines parse has been through
Reached == 1..line_idx \cup StoppedAt

\* the data records among the first n lines
DataPositions(n) == {j \in 1..n : IsRecord(j, 0)}

\* the segment that the data record of line j gave
SegmentOf(j) == segments[Cardinality(DataPositions(j))]

\* the upper half of the base in force at line j: that of the last 0x04
\* record before it, byte 0 above byte 1, and 0 if there is none
BaseHiAt(j) ==
    LET exts == {m \in 1..(j - 1) : IsRecord(m, 4)}
    IN  IF exts = {} THEN 0
        ELSE RecAt(Max(exts)).data[1] * 256 + RecAt(Max(exts)).data[2]

ParseReturned == pc \notin {"lines", "merge"}

\* the offsets of the image, counted from 0, that segment s covers
Covered(s) ==
    LET off == (s.addr.hi - Img.base_address.hi) * U16
                   + (s.addr.lo - Img.base_address.lo)
    IN  off..(off + Len(s.data) - 1)

CoveredBySome == UNION {Covered(segments[n]) : n \in 1..Len(segments)}

\* C1: when parse succeeds the data length is a multiple of BLOCK_SIZE and
\* every byte outside all the data records' ranges is 0xFF.
C1_AlignedAndErased ==
    (ParseReturned /\ result = Ok) =>
        /\ image # <<>>
        /\ Len(Img.data) % BLOCK_SIZE = 0
        /\ \A k \in (0..(Len(Img.data) - 1)) \ CoveredBySome :
               Img.data[k + 1] = 255

\* two blocks, a record in each, and a gap between them
C1_Witness ==
    /\ ParseReturned /\ result = Ok
    /\ Len(Img.data) = 2 * BLOCK_SIZE
    /\ Img.data[1] # 255 /\ Img.data[1026] # 255
    /\ Img.data[3] = 255 /\ 2 \notin CoveredBySome

\* C2: every data record gets the address (b0 << 24 | b1 << 16) + a, for
\* the payload (b0, b1) of the last 0x04 record before it and its own
\* 16-bit address a, and base 0 before any 0x04 record; a 0x04 record
\* replaces the base and leaves the segments collected so far as they are.
C2_ExtendedBaseReplaces ==
    /\ Len(segments) = Cardinality(DataPositions(line_idx))
    /\ \A j \in DataPositions(line_idx) :
           SegmentOf(j).addr = u32(BaseHiAt(j), RecAt(j).address)
    /\ extended_address = u32(BaseHiAt(line_idx + 1), 0)

\* two 0x04 records, then a data record under the second base
C2_Witness ==
    /\ line_idx = 3
    /\ content[1] = Ext6000 /\ content[2] = Ext0060 /\ content[3] = DataAt0
    /\ segments = <<[addr |-> u32(96, 0), data |-> <<70, 255>>]>>

\* lines j and j + 1 are a 0x04 record with the given payload and a data
\* record at 16-bit address 0
ExtendedThenData(j, payload) ==
    /\ j + 1 <= line_idx
    /\ IsRecord(j, 4) /\ RecAt(j).data = payload
    /\ IsRecord(j + 1, 0) /\ RecAt(j + 1).address = 0

\* the text is those two records and nothing else
OnlyExtendedThenData(payload) ==
    Len(content) = 2 /\ ExtendedThenData(1, payload)

\* C3 as stated: payload 00 60 gives 0x60000000
C3_AsStated ==
    /\ \A j \in 1..line_idx :
           ExtendedThenData(j, <<0, 96>>) => SegmentOf(j + 1).addr = u32(24576, 0)
    /\ (OnlyExtendedThenData(<<0, 96>>) /\ ParseReturned) =>
           result = Ok /\ Img.base_address = u32(24576, 0)

\* C3: a 0x04 record with payload 60 00, followed by a data record at
\* 16-bit address 0x0000, gives that record the address 0x60000000, and a
\* text of only these two records parses to base_address 0x60000000.
C3_Payload6000 ==
    /\ \A j \in 1..line_idx :
           ExtendedThenData(j, <<96, 0>>) => SegmentOf(j + 1).addr = u32(24576, 0)
    /\ (OnlyExtendedThenData(<<96, 0>>) /\ ParseReturned) =>
           result = Ok /\ Img.base_address = u32(24576, 0)

C3_Witness ==
    /\ OnlyExtendedThenData(<<96, 0>>) /\ ParseReturned
    /\ Img.base_address = u32(24576, 0)

\* the record line parse_record has just accepted, if any: one parse went
\* on from, the EOF record, or one that dispatch then turned down
AcceptedNow ==
    IF pc = "lines" /\ line_idx >= 1 /\ LineAt(line_idx) # <<>> THEN {line_idx}
    ELSE IF pc = "merge" /\ line_idx < Len(content) THEN {line_idx + 1}
    ELSE IF pc = "failed" /\ line_idx < Len(content)
                /\ result.err \in {"extended address must be 2 bytes",
                                   "unsupported record type"}
         THEN {line_idx + 1}
    ELSE {}

HexDigitChars == DOMAIN DigitTable

\* the places in a line, of a record with n payload bytes, of the digits
\* of the payload and of the checksum
PayloadAndChecksumDigits(n) == 10..(11 + 2 * n)

\* the sum of every byte of the line parse decoded, checksum included
DecodedSum(j) ==
    PlainSum(RecordBytes(RecAt(j).address, RecAt(j).record_type, RecAt(j).data))
        + parse_hex_u8(Tail(LineAt(j)), 8 + 2 * Len(RecAt(j).data))

\* C4: a line is accepted only if the 8-bit sum of its bytes is 0, and
\* putting another hex digit (one of another value) in place of any one
\* digit of its payload or checksum makes it fail with checksum mismatch.
C4_ChecksumGuards ==
    \A j \in AcceptedNow :
        /\ RecAt(j).ok
        /\ DecodedSum(j) % 256 = 0
        /\ \A p \in PayloadAndChecksumDigits(Len(RecAt(j).data)) :
           \A c \in HexDigitChars :
               (to_digit(LineAt(j)[p]) # InvalidHex
                    /\ to_digit(c) # to_digit(LineAt(j)[p]))
               => LET r == parse_record([LineAt(j) EXCEPT ![p] = c], j)
                  IN  ~r.ok /\ r.err = "checksum mismatch"

\* a data line was accepted, and the same line with one checksum digit
\* changed then failed
C4_Witness ==
    /\ pc = "failed" /\ line_idx = 1
    /\ content = <<DataAt0, [DataAt0 EXCEPT ![Len(DataAt0)] = "A"]>>
    /\ result = Err("checksum mismatch", 2)

\* the line of the first EOF record, or one past the last line
StopPosition ==
    LET eofs == {j \in 1..Len(content) : IsRecord(j, 1)}
    IN  IF eofs = {} THEN Len(content) + 1 ELSE Min(eofs)

\* every line before the stop is blank or a well-formed record parse takes
ValidToStop ==
    \A j \in 1..(StopPosition - 1) :
        LineAt(j) = <<>>
            \/ IsRecord(j, 0) \/ IsRecord(j, 5)
            \/ (IsRecord(j, 4) /\ Len(RecAt(j).data) = 2)

\* C5: an otherwise valid text with no data record before its EOF record,
\* or before its end, fails with the no-data error and gives no image.
C5_NoData ==
    (ParseReturned /\ ValidToStop /\ DataPositions(StopPosition - 1) = {}) =>
        /\ pc = "failed"
        /\ result = Err("hex file contains no data", 0)
        /\ image = <<>>

\* a text of a 0x04 and a 0x05 record only
C5_Witness ==
    /\ content = <<Ext6000, StartLinear>>
    /\ pc = "failed" /\ result = Err("hex file contains no data", 0)

\* C6: a non-blank line that parse reaches and that does not begin with
\* ':' fails with the missing-start-code error, whatever follows: any
\* record line shorn of its ':' fails that way too.
C6_StartCodeFirst ==
    /\ \A j \in Reached :
           (LineAt(j) # <<>> /\ LineAt(j)[1] # ":") =>
               pc = "failed" /\ result = Err("missing start code", j)
    /\ \A j \in 1..Len(content) :
           (Len(LineAt(j)) >= 2 /\ LineAt(j)[2] # ":") =>
               parse_record(Tail(LineAt(j)), j) = RecErr("missing start code", j)

\* a line with a good checksum but no ':' stopped parse after a good line
C6_Witness ==
    /\ line_idx = 1 /\ content = <<DataAt0, NoStartCode>>
    /\ pc = "failed" /\ result = Err("missing start code", 2)

(***************************************************************************)
(* What the flash loop has done, read off the log                          *)
(***************************************************************************)
Flashing == image # <<>> /\ pc \in {"block", "write", "flash failed", "reboot",
                                     "reboot write", "done"}

\* the blocks of the frames handed to write_report by the block loop
SentBlocks == {writes[k].block : k \in {m \in 1..Len(writes) : writes[m].op = "block"}}

\* the blocks reported to on_block
ProgressBlocks == {progress[k] : k \in 1..Len(progress)}

\* block b of the image holds only 0xFF
ErasedBlock == [k \in 1..BLOCK_SIZE |-> 255]
Blank(b) == SubSeq(Img.data, b * BLOCK_SIZE + 1, (b + 1) * BLOCK_SIZE) = ErasedBlock

\* the blocks the skip rule lets through: block 0 and every block with data
MustSend(b) == b = 0 \/ ~Blank(b)

\* C7: flash writes a frame for block 0 whatever it holds, and for a block
\* i > 0 exactly when the block holds a byte other than 0xFF; a blank block
\* i > 0 gets no frame and no progress callback.
C7_SkipRule ==
    Flashing =>
        /\ \A b \in SentBlocks \cup ProgressBlocks : MustSend(b)
        /\ \A b \in 0..(i - 1) :
               b \in SentBlocks \cap ProgressBlocks \/ ~MustSend(b)
        /\ pc = "write" => i \in ProgressBlocks

\* block 0 and block 1 are blank: block 0 was sent, block 1 was not
C7_Witness ==
    /\ Flashing /\ flash_result = Ok
    /\ total_blocks(Img) >= 2 /\ Blank(0) /\ Blank(1)
    /\ 0 \in SentBlocks /\ 1 \notin SentBlocks /\ 1 \notin ProgressBlocks

IsBlockWrite(w) == w.op = "block"

\* the write_report calls of the block loop, in order
BlockWrites == SelectSeq(writes, IsBlockWrite)

\* a write_report call for block b, among the first n of the block loop,
\* returned the full frame length
AckedWithin(b, n) ==
    \E k \in 1..n : BlockWrites[k].block = b /\ BlockWrites[k].res = "full"

\* C8: the blocks of the frames handed to write_report never decrease, and
\* a block is written, and reported to the progress callback, only after a
\* write of every earlier block that is not skipped returned the full
\* frame length.
C8_OrderedAcknowledged ==
    Flashing =>
        /\ \A k, l \in 1..Len(BlockWrites) :
               k < l => BlockWrites[k].block <= BlockWrites[l].block
        /\ \A l \in 1..Len(BlockWrites) : \A b \in 0..(BlockWrites[l].block - 1) :
               MustSend(b) => AckedWithin(b, l - 1)
        /\ \A j \in ProgressBlocks : \A b \in 0..(j - 1) :
               MustSend(b) => AckedWithin(b, Len(BlockWrites))
        /\ pc = "write" => \A b \in 0..(i - 1) :
               MustSend(b) => AckedWithin(b, Len(BlockWrites))

\* a block failed once, then succeeded, and a later block was written
C8_Witness ==
    /\ Flashing
    /\ Len(BlockWrites) >= 3
    /\ BlockWrites[1].res = "err" /\ BlockWrites[2].res = "full"
    /\ BlockWrites[3].block > BlockWrites[1].block

\* the latest write_report call was one of the block loop and failed
BlockWriteFailed ==
    last_write # <<>> /\ last_write[1].op = "block" /\ last_write[1].res = "err"

\* flash has returned the timed-out error for the latest write, naming budget
TimedOutWith(budget) ==
    /\ pc = "flash failed"
    /\ flash_result.kind = "err"
    /\ flash_result.err = "write timed out"
    /\ flash_result.block = last_write[1].block
    /\ flash_result.budget = budget

\* C9 as stated: the long budget for block 0 only
C9_AsStated ==
    BlockWriteFailed =>
        LET budget == IF last_write[1].block = 0 THEN ERASE_TIMEOUT
                      ELSE WRITE_TIMEOUT
        IN  last_write[1].elapsed >= budget <=> TimedOutWith(budget)

\* C9: a failed write ends flash with the write-timed-out error exactly
\* when the time since the block's first attempt has reached the budget,
\* which is the long erase timeout for the blocks 0..ERASE_BLOCK_COUNT and
\* the short write timeout for every later block; before that it retries.
C9_TieredTimeout ==
    BlockWriteFailed =>
        LET budget == IF last_write[1].block <= ERASE_BLOCK_COUNT
                      THEN ERASE_TIMEOUT ELSE WRITE_TIMEOUT
        IN  /\ last_write[1].elapsed >= budget <=> TimedOutWith(budget)
            /\ last_write[1].elapsed < budget => pc = "write" /\ flash_result = NoResult

\* block 5 timed out on the short budget
C9_Witness ==
    /\ BlockWriteFailed
    /\ TimedOutWith(WRITE_TIMEOUT)
    /\ last_write[1].block = ERASE_BLOCK_COUNT + 1
    /\ last_write[1].elapsed < ERASE_TIMEOUT

\* C10: every return of reboot is success, whatever write_report returned
\* (a full write, a short write, a failure at or after the timeout), and
\* reboot keeps retrying on a failure before the timeout; a failed block
\* write at or after its budget never ends flash in success.
C10_RebootNeverFails ==
    /\ reboot_result \in {NoResult, Ok}
    /\ pc = "done" => reboot_result = Ok
    /\ (last_write # <<>> /\ last_write[1].op = "reboot") =>
           IF last_write[1].res = "err" /\ last_write[1].elapsed < WRITE_TIMEOUT
           THEN pc = "reboot write" /\ reboot_result = NoResult
           ELSE pc = "done" /\ reboot_result = Ok
    /\ (BlockWriteFailed /\ last_write[1].elapsed >= timeout) =>
           flash_result.kind = "err" /\ pc = "flash failed"

\* reboot returned success on a write that failed after the timeout
C10_Witness ==
    /\ pc = "done" /\ reboot_result = Ok
    /\ last_write[1].op = "reboot" /\ last_write[1].res = "err"
    /\ last_write[1].elapsed >= WRITE_TIMEOUT

(***************************************************************************)
(* reboot over a transport whose write_report always fails                 *)
(***************************************************************************)
\* the results of a write_report call that fails
FailingResults == {res \in WriteResults : ~res.ok}

\* one failed write_report call of reboot; the log of all calls is not kept
\* here, only the latest call and the count
FailedRebootWrite(res, d) ==
    /\ fails' = fails + 1
    /\ last_write' = <<[op |-> "reboot", block |-> i, res |-> "err",
                        msg |-> res.msg, elapsed |-> (now + d) - start]>>
    /\ UNCHANGED writes

\* Err(_) if start.elapsed() >= WRITE_TIMEOUT => return Ok(())
RebootGivesUp ==
    /\ pc = "reboot write"
    /\ \E res \in FailingResults, d \in WriteDurations :
        LET step == reboot_step(res, (now + d) - start) IN
        /\ step # "retry"
        /\ FailedRebootWrite(res, d)
        /\ now' = now + d
        /\ reboot_result' = IF step = "done" THEN Ok
                             ELSE [kind |-> "err", err |-> step]
    /\ pc' = "done"
    /\ UNCHANGED <<pvars, i, report, block, timeout, start, last_reopen,
                   flash_result, progress, reopens, reopened>>

\* Err(_) => reopen if the throttle allows, sleep, loop
RebootFailsAgain ==
    /\ pc = "reboot write"
    /\ \E res \in FailingResults, d \in WriteDurations, s \in SleepDurations :
        /\ reboot_step(res, (now + d) - start) = "retry"
        /\ FailedRebootWrite(res, d)
        /\ Retry(reboot_reopens(res, (now + d) - last_reopen), d, s)
    /\ UNCHANGED <<pc, pvars, i, report, block, timeout, start, flash_result,
                   reboot_result, progress>>

NextRebootFailing ==
    \/ RebootStart
    \/ RebootGivesUp
    \/ RebootFailsAgain

\* reboot called on an open device
InitReboot ==
    /\ pc = "reboot"
    /\ content = <<>>
    /\ line_idx = 0
    /\ extended_address = u32(0, 0)
    /\ segments = <<>>
    /\ result = NoResult
    /\ image = <<>>
    /\ FlashIdle

\* the loop of reboot keeps running: every iteration that can be taken is
\* taken, and its sleep moves the clock by RETRY_SLEEP or more
SpecRebootFailing ==
    InitReboot /\ [][NextRebootFailing]_vars /\ WF_vars(NextRebootFailing)

\* the latest failed attempt of reboot ended the loop in success exactly
\* when WRITE_TIMEOUT had elapsed since the start of reboot
RebootFailureHandled ==
    (last_write # <<>> /\ last_write[1].op = "reboot" /\ last_write[1].res = "err") =>
        IF last_write[1].elapsed >= WRITE_TIMEOUT
        THEN pc = "done" /\ reboot_result = Ok
        ELSE pc = "reboot write" /\ reboot_result = NoResult

\* C11: over a transport that always fails, reboot eventually returns, and
\* returns success: at the first failed attempt with WRITE_TIMEOUT or more
\* elapsed since its start; on every failed attempt before that it retries.
C11_RebootTerminates ==
    /\ []RebootFailureHandled
    /\ <>(pc = "done" /\ reboot_result = Ok)

\* reboot returned after fifty failed attempts that it retried
C11_Witness ==
    /\ pc = "done" /\ reboot_result = Ok
    /\ fails = 51
    /\ last_write[1].res = "err" /\ last_write[1].elapsed = WRITE_TIMEOUT
    /\ Len(reopens) = 4

(***************************************************************************)
(* Short writes                                                            *)
(***************************************************************************)
\* the write_report calls of the block loop that returned fewer bytes than
\* the frame has
ShortBlockWrites ==
    {k \in 1..Len(writes) : writes[k].op = "block" /\ writes[k].res = "short"}

\* a short write is the last call of the session, and flash has returned
\* the short-write error for its block with the clock where the call left it
ShortWriteEndsFlash ==
    \A k \in ShortBlockWrites :
        /\ k = Len(writes)
        /\ pc = "flash failed"
        /\ flash_result.kind = "err" /\ flash_result.err = "short write"
        /\ flash_result.block = writes[k].block
        /\ reboot_result = NoResult
        /\ now = start + last_write[1].elapsed

\* C12: a write_report call of flash that returns fewer bytes than the
\* frame size makes flash return the short-write error at once; from then
\* on there is no write_report call, no reopen and no sleep.
C12_ShortWriteFatal ==
    /\ []ShortWriteEndsFlash
    /\ [][ShortBlockWrites # {} => UNCHANGED <<writes, reopens, now, i, pc>>]_vars

\* block 0 was written short with nearly all of its budget left, and the
\* later block 4, which holds data, was never written
C12_Witness ==
    /\ pc = "flash failed" /\ flash_result.err = "short write"
    /\ last_write[1].res = "short" /\ last_write[1].block = 0
    /\ last_write[1].elapsed < timeout
    /\ Len(writes) >= 2 /\ writes[1].res = "err"
    /\ total_blocks(Img) = 5 /\ ~Blank(4) /\ 4 \notin SentBlocks

(***************************************************************************)
(* Reopening the handle                                                    *)
(***************************************************************************)
\* this step holds a write_report call of the given loop
WriteStep(at) == pc = at /\ last_write' # <<>> /\ fails' + Len(writes') # fails + Len(writes)

\* this step holds a reopen call
ReopenStep == reopens' # reopens

\* the clock when the write_report call of this step returned
WriteReturned == start + last_write'[1].elapsed

\* the reopen call of this step came at the return of its write_report
\* call, its time was kept in last_reopen, and whatever it returned the
\* loop slept and stayed at the same frame
ReopenedThenRetried(at) ==
    /\ reopens' = Append(reopens, WriteReturned)
    /\ last_reopen' = WriteReturned
    /\ reopened' \in {<<TRUE>>, <<FALSE>>}
    /\ now' >= WriteReturned + RETRY_SLEEP
    /\ pc' = at /\ i' = i /\ report' = report /\ start' = start

\* C13: in the write loop of a block, reopen is called only right after a
\* write_report call that failed before the block's budget ran out, with a
\* "Broken pipe" error, and REOPEN_THROTTLE or more after the last reopen
\* time; never after another error; and the loop then sleeps and retries
\* the same frame, whatever reopen returned.
C13_ReopenOnBrokenPipe ==
    [][/\ (ReopenStep /\ pc = "write") => WriteStep("write")
       /\ WriteStep("write") =>
            /\ ReopenStep =>
                 /\ last_write'[1].res = "err"
                 /\ last_write'[1].elapsed < timeout
                 /\ last_write'[1].msg = "Broken pipe"
                 /\ WriteReturned - last_reopen >= REOPEN_THROTTLE
                 /\ ReopenedThenRetried("write")
            /\ (last_write'[1].res = "err" /\ last_write'[1].msg # "Broken pipe")
                 => ~ReopenStep]_vars

\* a reopen in the write loop returned false, and the same block was then
\* written again
C13_Witness ==
    /\ pc = "block" /\ reopened = <<FALSE>> /\ Len(reopens) = 1
    /\ Len(BlockWrites) = 2
    /\ BlockWrites[1].res = "err" /\ BlockWrites[2].res = "full"
    /\ BlockWrites[1].block = BlockWrites[2].block

\* C14 as stated: in the loop of reboot, reopen is called only after a
\* write_report call that failed with a "Broken pipe" error and
\* REOPEN_THROTTLE or more after the last reopen time; never after another
\* error.
C14_AsStated ==
    [][WriteStep("reboot write") =>
         /\ ReopenStep =>
              /\ last_write'[1].res = "err"
              /\ last_write'[1].msg = "Broken pipe"
              /\ WriteReturned - last_reopen >= REOPEN_THROTTLE
         /\ (last_write'[1].res = "err" /\ last_write'[1].msg # "Broken pipe")
              => ~ReopenStep]_vars

\* the time from one reopen call to the next, over the whole session
ReopenGaps == {reopens[k + 1] - reopens[k] : k \in 1..(Len(reopens) - 1)}

\* C15: over a session any two consecutive reopen calls are REOPEN_THROTTLE
\* or more apart, across the retry loops too, and a retry loop calls
\* reopen no sooner than REOPEN_THROTTLE after it started.
C15_ReopenThrottled ==
    /\ [](\A gap \in ReopenGaps : gap >= REOPEN_THROTTLE)
    /\ [][ReopenStep =>
            /\ reopens' = Append(reopens, WriteReturned)
            /\ last_write'[1].elapsed >= REOPEN_THROTTLE
            /\ WriteReturned - last_reopen >= REOPEN_THROTTLE]_vars

\* a reopen in the loop of a block, then one in the loop of reboot
C15_Witness ==
    /\ pc = "reboot write" /\ Len(reopens) = 2 /\ Len(writes) >= 3
    /\ last_write[1].op = "reboot"
    /\ reopens[1] < start /\ reopens[2] = last_reopen
    /\ writes[1].op = "block" /\ writes[1].res = "err"

(***************************************************************************)
(* FirmwareImage::parse as a function of the text                          *)
(***************************************************************************)
RECURSIVE parse_loop(_, _, _, _)
\* the loop over the lines, from line idx + 1 on: the segments, or the
\* error that ended it
parse_loop(text, idx, ext, segs) ==
    IF idx = Len(text) THEN [ok |-> TRUE, segments |-> segs]
    ELSE LET line == trim(text[idx + 1])
             rec  == parse_record(line, idx + 1)
             kind == dispatch(rec.record_type)
         IN  IF line = <<>> THEN parse_loop(text, idx + 1, ext, segs)
             ELSE IF ~rec.ok
                  THEN [ok |-> FALSE, err |-> Err(rec.err, idx + 1)]
             ELSE IF kind = "data"
                  THEN parse_loop(text, idx + 1, ext,
                                  Append(segs, [addr |-> full_address(ext, rec.address),
                                                data |-> rec.data]))
             ELSE IF kind = "eof" THEN [ok |-> TRUE, segments |-> segs]
             ELSE IF kind = "extended" /\ Len(rec.data) = 2
                  THEN parse_loop(text, idx + 1,
                                  new_extended_address(ext, rec.data), segs)
             ELSE IF kind = "extended"
                  THEN [ok |-> FALSE,
                        err |-> Err("extended address must be 2 bytes", idx + 1)]
             ELSE IF kind = "start" THEN parse_loop(text, idx + 1, ext, segs)
             ELSE [ok |-> FALSE, err |-> Err("unsupported record type", idx + 1)]

\* what parse returns for a text: the result and the image, if any
parse_outcome(text, overflow_checks) ==
    LET read == parse_loop(text, 0, u32(0, 0), <<>>)
    IN  IF ~read.ok THEN [result |-> read.err, image |-> <<>>]
        ELSE IF read.segments = <<>>
             THEN [result |-> Err("hex file contains no data", 0), image |-> <<>>]
        ELSE LET built == build_image(read.segments, overflow_checks)
             IN  IF built.kind = "ok"
                 THEN [result |-> Ok,
                       image |-> <<[data |-> built.data,
                                    base_address |-> built.base_address]>>]
                 ELSE [result |-> Panic, image |-> <<>>]

\* the lines that are well-formed EOF records
EofPositions == {j \in 1..Len(content) : IsRecord(j, 1)}

\* the text cut just after its first EOF record
UpToFirstEof == SubSeq(content, 1, Min(EofPositions))

\* the text has an EOF record and lines after the first one
LinesAfterEof == EofPositions # {} /\ Min(EofPositions) < Len(content)

\* C16: what parse returns for a text with lines after its first EOF
\* record, image or error, is what it returns for the text cut just after
\* that record; the loop never reads a line after it.
C16_StopsAtEof ==
    LinesAfterEof =>
        /\ line_idx < Min(EofPositions)
        /\ ParseReturned =>
             [result |-> result, image |-> image]
                 \in {parse_outcome(UpToFirstEof, oc) : oc \in BOOLEAN}

\* a data record, an EOF record, then a line without start code: an image
C16_Witness ==
    /\ content = <<DataAt0, EofLine, NoStartCode>>
    /\ pc = "parsed" /\ result = Ok
    /\ Img.data[1] = 70

(***************************************************************************)
(* Overlapping records and the end of the address range                    *)
(***************************************************************************)
\* the absolute addresses a segment covers, each with the carry out of 32
\* bits, so that 0x1_0000_0000 is not taken for 0
AddressesOf(seg) == {u32_add(seg.addr, k) : k \in 0..(Len(seg.data) - 1)}

\* two data records cover a common address
SomeOverlap ==
    \E m, n \in 1..Len(segments) :
        m < n /\ AddressesOf(segments[m]) \cap AddressesOf(segments[n]) # {}

\* the last segment that covers offset k of the image
LastCovering(k) == Max({n \in 1..Len(segments) : k \in Covered(segments[n])})

\* every covered byte of the image is the byte of the last record that
\* covers it
LastWins ==
    \A k \in CoveredBySome :
        LET seg == segments[LastCovering(k)]
        IN  Img.data[k + 1] = seg.data[k + 1 - Min(Covered(seg))]

\* C17 as stated: a text of valid records of which two or more cover a
\* common address parses to an image, and every covered byte of the image
\* is the byte of the last record in the text that covers it.
C17_AsStated ==
    (ParseReturned /\ ValidToStop /\ SomeOverlap) => (result = Ok /\ LastWins)

\* every copy of a segment stays inside the buffer
CopiesFit ==
    \A n \in 1..Len(segments) :
        /\ u32_le(base_of(segments), segments[n].addr)
        /\ Covered(segments[n]) \subseteq 0..(Len(Img.data) - 1)

\* C20 as stated: no segment's end, start + length, wraps modulo 2^32;
\* the end is not below the base, every copy stays inside the buffer, and
\* parse returns an image or an error and never aborts.
C20_AsStated ==
    /\ result # Panic
    /\ pc = "parsed" =>
         /\ ~end_overflows(segments)
         /\ u32_le(base_of(segments), end_of(segments))
         /\ CopiesFit

(***************************************************************************)
(* The empty image                                                         *)
(***************************************************************************)
\* C19 as stated: every image parse returns has a block or more, and flash
\* returns success only after a frame of block 0 was written.
C19_AsStated ==
    /\ image # <<>> => Len(Img.data) >= BLOCK_SIZE
    /\ flash_result = Ok => 0 \in SentBlocks

(***************************************************************************)
(* The frames of a large image: the loop of flash_with_progress over the   *)
(* blocks of an image of 16 MiB and more, reduced to what it does to the   *)
(* frame buffer                                                            *)
(***************************************************************************)
\* block indices around the ends of the one-, two- and three-byte address
FrameBlocks == {0, 1, 255, 256, 16383, 16384, 16385}

\* what a block can hold
FrameData ==
    {ErasedBlock,
     [k \in 1..BLOCK_SIZE |-> k % 251],
     [k \in 1..BLOCK_SIZE |-> IF k = BLOCK_SIZE THEN 0 ELSE 255]}

\* let mut report = [0u8; usb::REPORT_SIZE]
LargeFlashStart ==
    /\ pc = "large image"
    /\ i' = 0
    /\ report' = zeroed(REPORT_SIZE)
    /\ pc' = "frames"
    /\ UNCHANGED <<pvars, now, block, timeout, start, last_reopen, flash_result,
                   reboot_result, progress, writes, last_write, reopens,
                   reopened, fails>>

\* the next block that is not skipped: on_block and fill_block_report; the
\* log keeps the address bytes of the frame
FrameBuilt ==
    /\ pc = "frames"
    /\ \E j \in FrameBlocks, data \in FrameData :
        /\ IF progress = <<>> THEN j = 0 ELSE j > i
        /\ ~skip_block(j, data)
        /\ i' = j
        /\ block' = data
        /\ progress' = Append(progress, j)
        /\ report' = fill_block_report(report, j * BLOCK_SIZE, data)
        /\ writes' = Append(writes, [op |-> "frame", block |-> j,
                                     address |-> SubSeq(report', 2, 4)])
    /\ UNCHANGED <<pc, pvars, now, timeout, start, last_reopen, flash_result,
                   reboot_result, last_write, reopens, reopened, fails>>

InitFrames ==
    /\ pc = "large image"
    /\ content = <<>>
    /\ line_idx = 0
    /\ extended_address = u32(0, 0)
    /\ segments = <<>>
    /\ result = NoResult
    /\ image = <<>>
    /\ FlashIdle

\* the sessions of Spec, and the frames of a large image
SpecFrames == (Init \/ InitFrames) /\ [][Next \/ LargeFlashStart \/ FrameBuilt]_vars

\* the 24-bit little-endian value of the address bytes of the frame buffer
AddressField == report[2] + 256 * report[3] + 65536 * report[4]

\* the frame buffer but for its address bytes: byte 0 and bytes 4..64 are
\* 0 and bytes 65..1088 are the data
FrameAround(data) ==
    /\ Len(report) = REPORT_SIZE
    /\ report[1] = 0
    /\ SubSeq(report, 5, 1 + HEADER_SIZE) = zeroed(HEADER_SIZE - 3)
    /\ SubSeq(report, 2 + HEADER_SIZE, REPORT_SIZE) = data

\* flash holds a frame for block i: one it hands to write_report, or one of
\* the large image
FrameReady == pc = "write" \/ (pc = "frames" /\ progress # <<>>)

\* the bytes of block i
FrameBytes == IF pc = "write" THEN block_at(Img, i * BLOCK_SIZE) ELSE block

\* the frames of the large image so far
Frames == 1..Len(writes)

\* C18 as stated: the address bytes of the frame of block i decode to
\* i * BLOCK_SIZE, the rest of the frame is zeros and the block's bytes,
\* and no two blocks get the same address bytes.
C18_AsStated ==
    FrameReady =>
        /\ FrameAround(FrameBytes)
        /\ AddressField = i * BLOCK_SIZE
        /\ pc = "frames" =>
             \A m, n \in Frames :
                 writes[m].block # writes[n].block
                     => writes[m].address # writes[n].address

\* C18: the address bytes of the frame of block i decode to i * BLOCK_SIZE
\* modulo 2^24 (never to base_address + offset), the rest of the frame is
\* zeros and the block's bytes with nothing left of an earlier frame, and
\* two blocks get the same address bytes only if their indices differ by a
\* multiple of 16384.
C18_FrameLayout ==
    FrameReady =>
        /\ FrameAround(FrameBytes)
        /\ AddressField = (i * BLOCK_SIZE) % (256 * 256 * 256)
        /\ pc = "frames" =>
             \A m, n \in Frames :
                 (writes[m].block - writes[n].block) % (256 * 64) # 0
                     => writes[m].address # writes[n].address

\* block 16385 after block 1: both frames carry the address bytes of 1024
C18_Witness ==
    /\ pc = "frames" /\ i = 16385 /\ AddressField = BLOCK_SIZE
    /\ Len(writes) = 3 /\ writes[2].block = 1
    /\ writes[2].address = writes[3].address
    /\ FrameAround(block) /\ block[1] = 1

=============================================================================
